---- MODULE Spec2Model ----
(***************************************************************************)
(* House-price prediction service (shuaiweihuang/HSBC_RealEstate_ML).      *)
(*                                                                         *)
(* A training run writes the bundle and the metadata; one program then     *)
(* consumes them, selected by `service`:                                   *)
(*   "backend"  src/backend-python/app/main.py     (HTTP service)          *)
(*   "app_main" src/app/main.py                    (HTTP service)          *)
(*   "app_api"  src/app/api.py                     (HTTP service)          *)
(*   "evaluate" src/backend-python/app/evaluate.py (batch evaluator)       *)
(* Training runs precede the start of the service.  Numbers are exact      *)
(* rationals [n, d]; the fitted scikit-learn pipeline (StandardScaler +    *)
(* Ridge) is the affine map it computes, with integer coefficients.        *)
(***************************************************************************)
EXTENDS Integers, Sequences, FiniteSets, TLC

VARIABLES
    service,            \* which program consumes the bundle
    now,                \* calendar year of the system clock
    model_file,         \* MODEL_FILE on disk: missing, corrupt or a bundle
    meta_file,          \* META_FILE on disk: missing, corrupt or a dict
    phase,              \* "down" | "serving" | "failed" (startup raised, process exited)
    model_pipeline,     \* global model_pipeline: None or the fitted pipeline
    model_meta,         \* global model_meta: a dict, {} before the load
    original_features,  \* global original_features: ordered list of names
    target,             \* global target
    request,            \* the last operation: a request served, or a run of the
                        \* training script or of the evaluator (year: the
                        \* CURRENT_YEAR of that process)
    response,           \* its outcome
    pending             \* requests accepted and not yet answered, in order of arrival

vars == <<service, now, model_file, meta_file, phase, model_pipeline, model_meta,
          original_features, target, request, response, pending>>

(***************************************************************************)
(* Bounds of the model.                                                    *)
(***************************************************************************)
MaxBatch == 2
MaxYear == 2026

(***************************************************************************)
(* Program constants.                                                      *)
(***************************************************************************)
CURRENT_YEAR == 2025
NewHouseAge == 5
MinBedrooms == 1
MaxBedrooms == 10
MinYearBuilt == 1900
MaxSchoolRating == 10

None == [is_none |-> TRUE]
EmptyDict == [k \in {} |-> 0]

RAW_COLUMNS == {"square_footage", "bedrooms", "bathrooms", "year_built",
                "lot_size", "distance_to_city_center", "school_rating"}

(***************************************************************************)
(* Exact arithmetic on the floats of the program: a rational is [n, d]     *)
(* with d > 0; d = 0 is NaN (the median of an empty column).               *)
(***************************************************************************)
Abs(i) == IF i < 0 THEN -i ELSE i

RECURSIVE GCD(_, _)
GCD(a, b) == IF b = 0 THEN a ELSE GCD(b, a % b)

Rat(n, d) ==
    IF d = 0 THEN [n |-> 0, d |-> 0]
    ELSE LET s == IF d < 0 THEN -1 ELSE 1
             g == GCD(Abs(n), Abs(d))
         IN  [n |-> (s * n) \div g, d |-> (s * d) \div g]

RInt(i) == [n |-> i, d |-> 1]
IsNaN(a) == a.d = 0
RAdd(a, b) == Rat(a.n * b.d + b.n * a.d, a.d * b.d)
RSub(a, b) == Rat(a.n * b.d - b.n * a.d, a.d * b.d)
RMul(a, b) == Rat(a.n * b.n, a.d * b.d)
RDiv(a, b) == Rat(a.n * b.d, a.d * b.n)
RLt(a, b) == ~IsNaN(a) /\ ~IsNaN(b) /\ a.n * b.d < b.n * a.d
RLe(a, b) == ~IsNaN(a) /\ ~IsNaN(b) /\ a.n * b.d <= b.n * a.d
RGt(a, b) == RLt(b, a)

\* np.round / Python round(): round half to even.
RoundHalfEven(q) ==
    LET f == q.n \div q.d
        twice == 2 * (q.n - f * q.d)
    IN  IF twice < q.d THEN f
        ELSE IF twice > q.d THEN f + 1
        ELSE IF f % 2 = 0 THEN f ELSE f + 1

\* int(x) / ndarray.astype(int): truncation toward zero.
Truncate(q) == IF q.n >= 0 THEN q.n \div q.d ELSE -((-q.n) \div q.d)

(***************************************************************************)
(* A pandas DataFrame: its column names and its rows, each row a function  *)
(* from the column names to rationals.                                     *)
(***************************************************************************)
Indices(df) == 1..Len(df.rows)

\* pd.DataFrame(list of dicts): the columns are the union of the keys; a key
\* a record lacks is NaN in its row.
DataFrame(records) ==
    LET cols == UNION {DOMAIN records[i] : i \in 1..Len(records)}
    IN  [cols |-> cols,
         rows |-> [i \in 1..Len(records) |->
                    [c \in cols |-> IF c \in DOMAIN records[i]
                                    THEN RInt(records[i][c])
                                    ELSE Rat(0, 0)]]]

\* The k-th smallest value of column c.
KthSmallest(df, c, k) ==
    LET v(i) == df.rows[i][c]
    IN  v(CHOOSE i \in Indices(df) :
            /\ Cardinality({j \in Indices(df) : RLt(v(j), v(i))}) < k
            /\ Cardinality({j \in Indices(df) : RLe(v(j), v(i))}) >= k)

\* df[c].median(): the middle value, or the mean of the two middle values.
Median(df, c) ==
    LET len == Len(df.rows)
    IN  IF len = 0 THEN Rat(0, 0)
        ELSE IF len % 2 = 1 THEN KthSmallest(df, c, (len + 1) \div 2)
        ELSE RDiv(RAdd(KthSmallest(df, c, len \div 2),
                       KthSmallest(df, c, len \div 2 + 1)), RInt(2))

Bool01(b) == IF b THEN RInt(1) ELSE RInt(0)

\* list(a set): one iteration order of the set.
RECURSIVE AsList(_)
AsList(S) ==
    IF S = {} THEN <<>>
    ELSE LET x == CHOOSE y \in S : TRUE IN <<x>> \o AsList(S \ {x})

ToSet(s) == {s[i] : i \in 1..Len(s)}

(***************************************************************************)
(* backend-python/app/main.py: preprocess_features                         *)
(***************************************************************************)
\* the lookup reading n_samples when the key is absent
median_size_by_samples(meta, df) ==
    IF "training_median_square_footage" \in DOMAIN meta
    THEN RInt(meta["training_median_square_footage"])
    ELSE IF "n_samples" \in DOMAIN meta THEN RInt(meta["n_samples"])
    ELSE Median(df, "square_footage")

\* line 129: model_meta.get("training_median_square_footage", batch median),
\* for a metadata dict meta
median_size_given(meta, df) ==
    IF "training_median_square_footage" \in DOMAIN meta
    THEN RInt(meta["training_median_square_footage"])
    ELSE Median(df, "square_footage")

median_size(df) == median_size_given(model_meta, df)

\* The columns the derivations add to a table with columns cols: each one is
\* skipped when a column it reads is absent (the `if ... in df.columns` tests).
If(cond, names) == IF cond THEN names ELSE {}

derived_columns(cols) ==
    If("year_built" \in cols, {"age_of_house"})
    \cup If({"square_footage", "bedrooms"} \subseteq cols, {"size_per_bedroom"})
    \cup If({"bathrooms", "bedrooms"} \subseteq cols, {"bathroom_bedroom_ratio", "total_rooms"})
    \cup If({"school_rating", "distance_to_city_center"} \subseteq cols, {"quality_score"})
    \cup If("square_footage" \in cols, {"square_footage_sq", "large_house"})
    \cup If("lot_size" \in cols, {"lot_size_sq"})
    \cup If("year_built" \in cols \/ "age_of_house" \in cols, {"is_new_house"})

\* lines 98-130: the value of each derived column in row r of df.  Only
\* is_new_house reads a derived column, age_of_house.
engineer_value_given(meta, df, r, c) ==
    LET age == IF "year_built" \in df.cols
               THEN RSub(RInt(CURRENT_YEAR), r["year_built"])
               ELSE r["age_of_house"]
    IN  CASE c = "age_of_house" -> age
          [] c = "size_per_bedroom" ->
                RDiv(r["square_footage"], RAdd(r["bedrooms"], RInt(1)))
          [] c = "bathroom_bedroom_ratio" ->
                RDiv(r["bathrooms"], RAdd(r["bedrooms"], RInt(1)))
          [] c = "total_rooms" -> RAdd(r["bedrooms"], r["bathrooms"])
          [] c = "quality_score" ->
                RMul(r["school_rating"],
                     RDiv(RInt(1), RAdd(r["distance_to_city_center"], Rat(1, 10))))
          [] c = "square_footage_sq" -> RMul(r["square_footage"], r["square_footage"])
          [] c = "lot_size_sq" -> RMul(r["lot_size"], r["lot_size"])
          [] c = "is_new_house" -> Bool01(RLe(age, RInt(NewHouseAge)))
          [] c = "large_house" ->
                Bool01(RGt(r["square_footage"], median_size_given(meta, df)))

engineer_value(df, r, c) == engineer_value_given(model_meta, df, r, c)

\* the table after the derivations, when the global model_meta is meta
engineer_given(meta, df) ==
    LET derived == derived_columns(df.cols)
    IN  [cols |-> df.cols \cup derived,
         rows |-> [i \in Indices(df) |->
                    [c \in df.cols \cup derived |->
                        IF c \in derived THEN engineer_value_given(meta, df, df.rows[i], c)
                        ELSE df.rows[i][c]]]]

engineer(df) == engineer_given(model_meta, df)

\* preprocess_features returning df_processed as it is, neither checked nor
\* cut down to original_features
preprocess_features_unselected(df) ==
    LET df_processed == engineer(df)
    IN  [ok |-> TRUE, error |-> "", missing |-> {},
         columns |-> AsList(df_processed.cols),
         rows |-> df_processed.rows]

\* lines 132-138: the missing-column check and the final column selection.
preprocess_features(df) ==
    LET df_processed == engineer(df)
        missing_cols == ToSet(original_features) \ df_processed.cols
    IN  IF missing_cols # {}
        THEN [ok |-> FALSE, error |-> "RuntimeError", missing |-> missing_cols,
              columns |-> <<>>, rows |-> <<>>]
        ELSE [ok |-> TRUE, error |-> "", missing |-> {},
              columns |-> original_features,
              rows |-> [i \in Indices(df_processed) |->
                         [c \in ToSet(original_features) |-> df_processed.rows[i][c]]]]

(***************************************************************************)
(* The fitted pipeline: ColumnTransformer (selects its columns by name)    *)
(* + StandardScaler + Ridge, i.e. an affine map of the selected columns.   *)
(***************************************************************************)
RECURSIVE Dot(_, _, _)
Dot(coef, row, names) ==
    IF names = {} THEN RInt(0)
    ELSE LET f == CHOOSE x \in names : TRUE
         IN  RAdd(RMul(RInt(coef[f]), row[f]), Dot(coef, row, names \ {f}))

\* pipeline.predict(X): a ValueError when a column the transformer selects is
\* absent, when X has no rows, or when a selected cell is NaN.
predict(pipeline, cols, rows) ==
    LET need == DOMAIN pipeline.coef
    IN  IF \/ ~(need \subseteq cols)
           \/ Len(rows) = 0
           \/ \E i \in 1..Len(rows) : \E c \in need : IsNaN(rows[i][c])
        THEN [ok |-> FALSE, y |-> <<>>]
        ELSE [ok |-> TRUE,
              y |-> [i \in 1..Len(rows) |->
                      RAdd(RInt(pipeline.intercept), Dot(pipeline.coef, rows[i], need))]]

(***************************************************************************)
(* The HTTP answers.  kind: "ok", "HTTPException" (raised by the handler), *)
(* "RequestValidationError" (the framework rejects the body against the    *)
(* declared schema, before the handler runs) or "unhandled" (an exception  *)
(* escaped the handler; the framework answers 500 and keeps serving).      *)
(***************************************************************************)
Reply(op, status, kind, detail, prices) ==
    [op |-> op, status |-> status, kind |-> kind, detail |-> detail,
     prices |-> prices, missing |-> {}, defaulted |-> {}, engineered |-> <<>>,
     model |-> "", top_features |-> <<>>, output |-> <<>>]

Ok(op, prices) == Reply(op, 200, "ok", "", prices)
HTTPException(op, status, detail) == Reply(op, status, "HTTPException", detail, <<>>)
Unhandled(op, detail) == Reply(op, 500, "unhandled", detail, <<>>)
RequestValidationError(op) == Reply(op, 422, "RequestValidationError", "", <<>>)

NoResponse == Reply("none", 0, "ok", "", <<>>)

(***************************************************************************)
(* Inputs.  A raw record is a dict from column names to numbers.           *)
(***************************************************************************)
House(sq, bed, lot) ==
    [square_footage |-> sq, bedrooms |-> bed, bathrooms |-> 2, year_built |-> 2020,
     lot_size |-> lot, distance_to_city_center |-> 1, school_rating |-> 8]

\* lot_size -1 and bedrooms 0 are outside the ranges of a raw record.
Houses == {House(6, 3, 3), House(4, 3, 3), House(6, 3, -1), House(6, 0, 3)}

\* a row of a CSV that has an id column
WithId(rec, id) == [k \in DOMAIN rec \cup {"id"} |-> IF k = "id" THEN id ELSE rec[k]]

Without(rec, c) == [k \in DOMAIN rec \ {c} |-> rec[k]]

RECURSIVE SeqsUpTo(_, _)
SeqsUpTo(S, n) ==
    IF n = 0 THEN {<<>>}
    ELSE LET shorter == SeqsUpTo(S, n - 1)
         IN  shorter \cup {Append(s, x) : s \in {t \in shorter : Len(t) = n - 1}, x \in S}

\* tables of records that pass the declared schema
Tables == SeqsUpTo({House(6, 3, 3), House(4, 3, 3)}, MaxBatch)

\* request bodies of /predict-batch
Batches == Tables \cup {<<House(6, 3, -1)>>, <<House(6, 0, 3)>>}

\* uploads of /predict-csv: a file name, the header and the data rows.
\* No header at all is a zero-byte file.
Upload(name, columns, rows) == [filename |-> name, columns |-> columns, rows |-> rows]

Uploads ==
    {Upload("houses.csv", RAW_COLUMNS, rows) : rows \in Tables}
    \cup {Upload("houses.csv", RAW_COLUMNS \ {"lot_size"},
                 <<Without(House(6, 3, 3), "lot_size")>>),
          Upload("houses.csv", RAW_COLUMNS, <<House(6, 3, -1)>>),
          Upload("houses.csv", RAW_COLUMNS, <<House(6, 0, 3)>>),
          Upload("houses.csv", RAW_COLUMNS \cup {"id"},
                 <<WithId(House(6, 3, 3), 7), WithId(House(4, 3, 3), 9)>>),
          Upload("houses.csv", {}, <<>>),
          Upload("houses.txt", RAW_COLUMNS, <<House(6, 3, 3)>>)}

(***************************************************************************)
(* backend-python/app/hpml_train.py                                        *)
(***************************************************************************)
ALLOWED_FEATURES ==
    {"square_footage", "bedrooms", "bathrooms", "year_built",
     "lot_size", "distance_to_city_center", "school_rating"}

\* lines 101-106
ALLOWED_FEATURES_TRAIN ==
    ((ALLOWED_FEATURES \cup {"age_of_house"}) \ {"year_built"})
    \cup {"size_per_bedroom", "bathroom_bedroom_ratio", "total_rooms", "quality_score",
          "square_footage_sq", "lot_size_sq", "is_new_house", "large_house"}

\* lines 65-95: the derivations of the training script, with the CURRENT_YEAR
\* of the training process.  age_of_house is derived unconditionally.
hpml_train_value(df, year, r, c) ==
    LET age == RSub(RInt(year), r["year_built"])
    IN  CASE c = "age_of_house" -> age
          [] c = "size_per_bedroom" ->
                RDiv(r["square_footage"], RAdd(r["bedrooms"], RInt(1)))
          [] c = "bathroom_bedroom_ratio" ->
                RDiv(r["bathrooms"], RAdd(r["bedrooms"], RInt(1)))
          [] c = "total_rooms" -> RAdd(r["bedrooms"], r["bathrooms"])
          [] c = "quality_score" -> RMul(r["school_rating"], r["distance_to_city_center"])
          [] c = "square_footage_sq" -> RMul(r["square_footage"], r["square_footage"])
          [] c = "lot_size_sq" -> RMul(r["lot_size"], r["lot_size"])
          [] c = "is_new_house" -> Bool01(RLe(age, RInt(NewHouseAge)))
          [] c = "large_house" ->
                Bool01(RGt(r["square_footage"], Median(df, "square_footage")))

hpml_train_engineer(df, year) ==
    LET derived == derived_columns(df.cols)
    IN  [cols |-> df.cols \cup derived,
         rows |-> [i \in Indices(df) |->
                    [c \in df.cols \cup derived |->
                        IF c \in derived THEN hpml_train_value(df, year, df.rows[i], c)
                        ELSE df.rows[i][c]]]]

\* The outcomes of pipeline.fit (lines 133-138, 156): the Ridge coefficients
\* over features_to_scale and the intercept.
Coefficients(one, ten, hundred) ==
    [f \in ALLOWED_FEATURES_TRAIN |->
        IF f \in one THEN 1 ELSE IF f \in ten THEN 10 ELSE IF f \in hundred THEN 100 ELSE 0]

\* pipeline['regressor'].coef_ (line 156): the Ridge coefficients on the
\* standardized columns, a rational for each; a feature not named has 0.
RidgeCoef(given) ==
    [f \in ALLOWED_FEATURES_TRAIN |-> IF f \in DOMAIN given THEN given[f] ELSE RInt(0)]

\* coef, intercept: the affine map that scaler and regressor compose to;
\* coef_: the coefficients of the regressor alone.
FittedPipelines ==
    {[coef |-> Coefficients({"size_per_bedroom", "quality_score"}, {"large_house"},
                            {"is_new_house"}),
      intercept |-> 0,
      coef_ |-> RidgeCoef([size_per_bedroom |-> Rat(5, 2), quality_score |-> Rat(7, 2),
                           large_house |-> RInt(10), is_new_house |-> RInt(100)])],
     [coef |-> [Coefficients({"quality_score", "lot_size_sq", "bedrooms", "bathrooms",
                              "total_rooms"}, {}, {})
                  EXCEPT !["age_of_house"] = -10],
      intercept |-> 50,
      coef_ |-> RidgeCoef([quality_score |-> Rat(1, 2), lot_size_sq |-> RInt(3),
                           bedrooms |-> RInt(2), bathrooms |-> Rat(3, 2),
                           total_rooms |-> RInt(1), age_of_house |-> RInt(-20)])]}

\* A feature name as the metadata spells it: f'num__{f}' (line 153), kept as
\* the prefix and the name.
ScaledName(f) == <<"num__", f>>

\* lines 153-157: dict(zip(scaled_feature_names, coefs)), as the list of its
\* items in insertion order.
CoefficientItems(pipeline, features) ==
    [i \in 1..Len(features) |->
        [name |-> ScaledName(features[i]), coef |-> pipeline.coef_[features[i]]]]

\* training CSVs: the seven raw columns and the price.
Labelled(h, price) == [k \in DOMAIN h \cup {"price"} |-> IF k = "price" THEN price ELSE h[k]]

TrainingCSVs ==
    {Upload("HousePriceDataset.csv", RAW_COLUMNS \cup {"price"},
            <<Labelled(House(6, 3, 3), 300), Labelled(House(4, 3, 3), 200)>>)}

\* lines 191-195
TrainedBundle(pipeline, features, tgt) ==
    [pipeline |-> pipeline, features_used |-> features, target |-> tgt]

\* lines 163-188: the keys of the metadata that the services read.
TrainedMeta(pipeline, features, tgt, n) ==
    [target |-> tgt,
     n_samples |-> n,
     features_used |-> features,
     train_mean_price |-> 250,
     metrics_on_training_set |-> [mae |-> 0, r2 |-> 1],
     coefficients |-> CoefficientItems(pipeline, features)]

(***************************************************************************)
(* app/hpml_train.py                                                       *)
(***************************************************************************)
MinSamples == 10

\* The characters of a column name or pattern.
Chars(name) ==
    CASE name = "square_footage" ->
            <<"s", "q", "u", "a", "r", "e", "_", "f", "o", "o", "t", "a", "g", "e">>
      [] name = "bedrooms" ->
            <<"b", "e", "d", "r", "o", "o", "m", "s">>
      [] name = "bathrooms" ->
            <<"b", "a", "t", "h", "r", "o", "o", "m", "s">>
      [] name = "year_built" ->
            <<"y", "e", "a", "r", "_", "b", "u", "i", "l", "t">>
      [] name = "lot_size" ->
            <<"l", "o", "t", "_", "s", "i", "z", "e">>
      [] name = "distance_to_city_center" ->
            <<"d", "i", "s", "t", "a", "n", "c", "e", "_", "t", "o", "_", "c", "i", "t", "y", "_", "c", "e", "n", "t", "e", "r">>
      [] name = "school_rating" ->
            <<"s", "c", "h", "o", "o", "l", "_", "r", "a", "t", "i", "n", "g">>
      [] name = "age_of_house" ->
            <<"a", "g", "e", "_", "o", "f", "_", "h", "o", "u", "s", "e">>
      [] name = "size_per_bedroom" ->
            <<"s", "i", "z", "e", "_", "p", "e", "r", "_", "b", "e", "d", "r", "o", "o", "m">>
      [] name = "bathroom_bedroom_ratio" ->
            <<"b", "a", "t", "h", "r", "o", "o", "m", "_", "b", "e", "d", "r", "o", "o", "m", "_", "r", "a", "t", "i", "o">>
      [] name = "total_rooms" ->
            <<"t", "o", "t", "a", "l", "_", "r", "o", "o", "m", "s">>
      [] name = "quality_score" ->
            <<"q", "u", "a", "l", "i", "t", "y", "_", "s", "c", "o", "r", "e">>
      [] name = "square_footage_sq" ->
            <<"s", "q", "u", "a", "r", "e", "_", "f", "o", "o", "t", "a", "g", "e", "_", "s", "q">>
      [] name = "lot_size_sq" ->
            <<"l", "o", "t", "_", "s", "i", "z", "e", "_", "s", "q">>
      [] name = "is_new_house" ->
            <<"i", "s", "_", "n", "e", "w", "_", "h", "o", "u", "s", "e">>
      [] name = "large_house" ->
            <<"l", "a", "r", "g", "e", "_", "h", "o", "u", "s", "e">>
      [] name = "price" ->
            <<"p", "r", "i", "c", "e">>
      [] name = "sale_price" ->
            <<"s", "a", "l", "e", "_", "p", "r", "i", "c", "e">>
      [] name = "id" ->
            <<"i", "d">>
      [] name = "Listing_ID" ->
            <<"L", "i", "s", "t", "i", "n", "g", "_", "I", "D">>
      [] name = "garage" ->
            <<"g", "a", "r", "a", "g", "e">>
      [] name = "index" ->
            <<"i", "n", "d", "e", "x">>
      [] name = "row" ->
            <<"r", "o", "w">>
      [] name = "listing" ->
            <<"l", "i", "s", "t", "i", "n", "g">>
      [] name = "mls" ->
            <<"m", "l", "s">>

\* str.lower(), on the letters that occur in upper case
Lower(chars) ==
    [k \in 1..Len(chars) |->
        CASE chars[k] = "L" -> "l"
          [] chars[k] = "I" -> "i"
          [] chars[k] = "D" -> "d"
          [] OTHER -> chars[k]]

\* pattern in col: pattern occurs in col as a substring
In(pattern, col) ==
    \E k \in 0..(Len(col) - Len(pattern)) : SubSeq(col, k + 1, k + Len(pattern)) = pattern

\* line 88
forbidden_patterns == {"id", "index", "row", "listing", "mls"}

\* lines 89-92: the columns of X_raw that smell like an ID
leaked(columns) ==
    SelectSeq(columns,
              LAMBDA col : \E pattern \in forbidden_patterns :
                              In(Chars(pattern), Lower(Chars(col))))

\* every column of the CSV taken as a feature, without the allow-list
available_features_unlisted(header) == header

\* line 76: [col for col in ALLOWED_FEATURES if col in df.columns], in the
\* iteration order of the set
available_features(header) ==
    SelectSeq(AsList(ALLOWED_FEATURES), LAMBDA col : col \in ToSet(header))

\* lines 63-70: the target column
resolve_target(target_name, header) ==
    IF target_name # "" /\ target_name \in ToSet(header) THEN target_name
    ELSE IF "price" \in ToSet(header) THEN "price"
    ELSE IF "sale_price" \in ToSet(header) THEN "sale_price"
    ELSE header[Len(header)]

\* lines 85-95: X_raw.columns after the ID-like columns are dropped
X_raw_columns(header) ==
    LET kept == available_features(header)
    IN  SelectSeq(kept, LAMBDA col : col \notin ToSet(leaked(kept)))

\* lines 117-123, 135-140: the pipeline fitted on X_raw, with the
\* coefficient of the regressor for each column
FittedOn(features) ==
    [coef |-> [f \in ToSet(features) |-> 1],
     intercept |-> 0,
     coef_ |-> [f \in ToSet(features) |-> RInt(1)]]

\* lines 157-172: the keys of the metadata that the services read
AppMeta(pipeline, features, tgt, n) ==
    [target |-> tgt,
     n_samples |-> n,
     features_used |-> features,
     train_mean_price |-> 250,
     metrics_on_training_set |-> [mae |-> 0, r2 |-> 1],
     coefficients |-> CoefficientItems(pipeline, features),
     intercept |-> pipeline.intercept]

\* A training CSV: its header in order and n rows, the raw columns filled
\* from one record and every other column with the row number.
TrainingCSV(header, n) ==
    [filename |-> "HousePriceDataset.csv",
     header |-> header,
     columns |-> ToSet(header),
     rows |-> [i \in 1..n |->
                [c \in ToSet(header) |->
                    IF c \in RAW_COLUMNS THEN House(6, 3, 3)[c] ELSE i]]]

RawHeader ==
    <<"square_footage", "bedrooms", "bathrooms", "year_built", "lot_size",
      "distance_to_city_center", "school_rating">>

AppTrainingCSVs ==
    {TrainingCSV(<<"id", "Listing_ID">> \o RawHeader \o <<"garage", "price">>, MinSamples),
     TrainingCSV(<<"bedrooms", "square_footage", "sale_price">>, MinSamples),
     TrainingCSV(RawHeader, MinSamples),
     TrainingCSV(<<"id", "garage", "price">>, MinSamples),
     TrainingCSV(RawHeader \o <<"price">>, MinSamples - 1)}

\* values of --target; "" is the argument left out (None): the code tests it
\* by truth value, which None and the empty string share
TargetNames == {"", "price", "square_footage", "zestimate"}

(***************************************************************************)
(* Files on disk.                                                          *)
(***************************************************************************)
MissingFile == [state |-> "missing"]
CorruptFile == [state |-> "corrupt"]
FileOf(content) == [state |-> "ok", content |-> content]
Readable(file) == file.state = "ok"

\* A metadata file written by hand, carrying the key that preprocess_features
\* looks up (backend-python/app/main.py line 129).
ProvisionedMeta ==
    [target |-> "price", n_samples |-> 2, features_used |-> <<>>,
     coefficients |-> <<>>, training_median_square_footage |-> 5]

(***************************************************************************)
(* Startup.                                                                *)
(***************************************************************************)
\* load_model without the reset of line 70: a failure while reading the
\* metadata leaves the pipeline of the bundle in place
load_model_without_reset ==
    /\ service = "backend"
    /\ phase = "down"
    /\ phase' = "serving"
    /\ IF ~Readable(model_file)
       THEN /\ model_pipeline' = None
            /\ UNCHANGED <<model_meta, original_features, target>>
       ELSE /\ original_features' = model_file.content.features_used
            /\ target' = model_file.content.target
            /\ model_pipeline' = model_file.content.pipeline
            /\ IF ~Readable(meta_file)
               THEN UNCHANGED model_meta
               ELSE model_meta' = meta_file.content
    /\ UNCHANGED <<service, now, model_file, meta_file,
                   request, response, pending>>

\* backend-python/app/main.py lines 50-70: every exception is caught, the
\* pipeline is reset to None and the service starts.
load_model ==
    /\ service = "backend"
    /\ phase = "down"
    /\ phase' = "serving"
    /\ IF ~Readable(model_file)
       THEN /\ model_pipeline' = None
            /\ UNCHANGED <<model_meta, original_features, target>>
       ELSE /\ original_features' = model_file.content.features_used
            /\ target' = model_file.content.target
            /\ IF ~Readable(meta_file)
               THEN /\ model_pipeline' = None
                    /\ UNCHANGED model_meta
               ELSE /\ model_pipeline' = model_file.content.pipeline
                    /\ model_meta' = meta_file.content
    /\ UNCHANGED <<service, now, model_file, meta_file,
                   request, response, pending>>

\* load_model of app/main.py catching every exception, as the backend's does
load_model_app_swallowing ==
    /\ service = "app_main"
    /\ phase = "down"
    /\ phase' = "serving"
    /\ IF Readable(model_file) /\ meta_file # CorruptFile
       THEN /\ model_pipeline' = model_file.content.pipeline
            /\ original_features' = model_file.content.features_used
            /\ model_meta' =
                 IF Readable(meta_file) THEN meta_file.content
                 ELSE [target |-> "price", n_samples |-> 0,
                       features_used |-> model_file.content.features_used]
       ELSE /\ model_pipeline' = None
            /\ UNCHANGED <<model_meta, original_features>>
    /\ UNCHANGED <<service, now, model_file, meta_file, target, request, response,
                   pending>>

\* app/main.py lines 38-62: a missing or unreadable model file, or an
\* unreadable metadata file, raises out of the startup hook; a missing
\* metadata file is replaced by a default dict.
load_model_app ==
    /\ service = "app_main"
    /\ phase = "down"
    /\ IF ~Readable(model_file)
       THEN /\ phase' = "failed"
            /\ UNCHANGED <<model_pipeline, model_meta, original_features>>
       ELSE /\ model_pipeline' = model_file.content.pipeline
            /\ original_features' = model_file.content.features_used
            /\ IF meta_file = CorruptFile
               THEN /\ phase' = "failed"
                    /\ UNCHANGED model_meta
               ELSE /\ phase' = "serving"
                    /\ model_meta' =
                         IF Readable(meta_file) THEN meta_file.content
                         ELSE [target |-> "price", n_samples |-> 0,
                               features_used |-> model_file.content.features_used]
    /\ UNCHANGED <<service, now, model_file, meta_file, target,
                   request, response, pending>>

\* app/api.py lines 9-18: the load runs at import; any failure aborts the
\* import and no application exists.
load_model_api ==
    /\ service = "app_api"
    /\ phase = "down"
    /\ IF ~Readable(model_file)
       THEN /\ phase' = "failed"
            /\ UNCHANGED <<model_pipeline, model_meta, original_features, target>>
       ELSE /\ model_pipeline' = model_file.content.pipeline
            /\ original_features' = model_file.content.features_used
            /\ target' = model_file.content.target
            /\ IF ~Readable(meta_file)
               THEN /\ phase' = "failed"
                    /\ UNCHANGED model_meta
               ELSE /\ phase' = "serving"
                    /\ model_meta' = meta_file.content
    /\ UNCHANGED <<service, now, model_file, meta_file,
                   request, response, pending>>

(***************************************************************************)
(* GET /health                                                             *)
(***************************************************************************)
HealthReply(model) == [Ok("health", <<>>) EXCEPT !.model = model]

\* the health check of the other two copies, which reads no state
health_check_constant == HealthReply("loaded")

\* backend-python/app/main.py lines 141-143
health_check == HealthReply(IF model_pipeline # None THEN "loaded" ELSE "not loaded")

\* app/main.py lines 79-82: "Model is loaded and ready"
health_check_app == HealthReply("loaded")

\* app/api.py lines 41-43
health_check_api == HealthReply("loaded")

(***************************************************************************)
(* GET /model-info                                                         *)
(***************************************************************************)
TopN == 5

RAbs(a) == [n |-> Abs(a.n), d |-> a.d]

\* the position of item i when the key is the signed coefficient
SortedPosition_signed(items, i) ==
    1 + Cardinality({j \in 1..Len(items) :
                        \/ RGt(items[j].coef, items[i].coef)
                        \/ j < i /\ items[j].coef = items[i].coef})

\* sorted(items, key=lambda x: abs(x[1]), reverse=True): a stable sort, so
\* items of equal magnitude keep their order.  The position of item i:
SortedPosition(items, i) ==
    1 + Cardinality({j \in 1..Len(items) :
                        \/ RGt(RAbs(items[j].coef), RAbs(items[i].coef))
                        \/ j < i /\ RAbs(items[j].coef) = RAbs(items[i].coef)})

SortedByAbs(items) ==
    [k \in 1..Len(items) |->
        items[CHOOSE i \in 1..Len(items) : SortedPosition(items, i) = k]]

\* items[:5]
FirstN(items, n) == SubSeq(items, 1, IF Len(items) < n THEN Len(items) ELSE n)

\* name.replace(old, ""): every occurrence of old is removed.
Replace(name, old) == SelectSeq(name, LAMBDA part : part # old)

\* The top-features list of the backend service and of app/api.py.
top_features(coefficients) ==
    LET top == FirstN(SortedByAbs(coefficients), TopN)
    IN  [k \in 1..Len(top) |->
            [feature |-> Replace(top[k].name, "num__"),
             impact |-> RoundHalfEven(top[k].coef)]]

\* app/main.py lines 98-103 also strip "cat__".
top5_impact_features(coefficients) ==
    LET top5 == FirstN(SortedByAbs(coefficients), TopN)
    IN  [k \in 1..Len(top5) |->
            [feature |-> Replace(Replace(top5[k].name, "num__"), "cat__"),
             impact |-> RoundHalfEven(top5[k].coef)]]

TopFeatures(reply, top) == [reply EXCEPT !.top_features = top]

\* backend-python/app/main.py lines 146-169: an empty metadata dict is a 503;
\* a key read with [] that the metadata lacks is a KeyError.
model_info ==
    IF model_meta = EmptyDict
    THEN HTTPException("model-info", 503, "Model metadata not loaded")
    ELSE IF ~({"n_samples", "metrics_on_training_set", "coefficients"}
                \subseteq DOMAIN model_meta)
    THEN Unhandled("model-info", "KeyError")
    ELSE TopFeatures(Ok("model-info", <<>>), top_features(model_meta["coefficients"]))

\* app/main.py lines 85-112: every key is read with a default.
model_information ==
    IF model_meta = EmptyDict
    THEN HTTPException("model-info", 503, "Model metadata not available")
    ELSE TopFeatures(Ok("model-info", <<>>),
                     top5_impact_features(IF "coefficients" \in DOMAIN model_meta
                                          THEN model_meta["coefficients"] ELSE <<>>))

\* app/api.py lines 46-59
model_info_api ==
    IF ~({"n_samples", "metrics_on_training_set", "coefficients"}
           \subseteq DOMAIN model_meta)
    THEN Unhandled("model-info", "KeyError")
    ELSE TopFeatures(Ok("model-info", <<>>), top_features(model_meta["coefficients"]))

(***************************************************************************)
(* backend-python/app/main.py: the inference endpoints                     *)
(***************************************************************************)
\* lines 73-80: the declared schema of a request record.  square_footage,
\* lot_size and distance_to_city_center carry no range.
HouseFeatures(h) ==
    /\ RAW_COLUMNS \subseteq DOMAIN h
    /\ h["bedrooms"] >= MinBedrooms /\ h["bedrooms"] <= MaxBedrooms
    /\ h["bathrooms"] >= 1 /\ h["bathrooms"] <= 10
    /\ h["year_built"] >= MinYearBuilt /\ h["year_built"] <= CURRENT_YEAR
    /\ h["school_rating"] >= 0 /\ h["school_rating"] <= MaxSchoolRating

\* pd.read_csv(StringIO(content)): the header gives the columns.
read_csv(file) ==
    [cols |-> file.columns,
     rows |-> [i \in 1..Len(file.rows) |->
                [c \in file.columns |-> RInt(file.rows[i][c])]]]

\* file.filename.lower().endswith(".csv")
EndsWithCsv(name) == name \in {"houses.csv", "HousePriceDataset.csv"}

Rounded(y) == [i \in 1..Len(y) |-> RoundHalfEven(y[i])]
AsInt(y) == [i \in 1..Len(y) |-> Truncate(y[i])]

\* The records feature engineering ran on, kept with the answer.
Engineered(reply, records) == [reply EXCEPT !.engineered = records]

\* lines 229-238: result_df = df.copy(); an id column 1..n is inserted when
\* df has none; the predicted_price column is set.
result_df(df, predicted_price) ==
    [i \in Indices(df) |->
        [c \in df.cols \cup {"id", "predicted_price"} |->
            IF c = "predicted_price" THEN RInt(predicted_price[i])
            ELSE IF c = "id" /\ "id" \notin df.cols THEN RInt(i)
            ELSE df.rows[i][c]]]

\* app/main.py lines 176-178: the id column 1..n is always inserted, into
\* the table cut down to original_features.
result_df_app(df, predicted_price) ==
    [i \in Indices(df) |->
        [c \in df.cols \cup {"id", "predicted_price"} |->
            IF c = "predicted_price" THEN RInt(predicted_price[i])
            ELSE IF c = "id" THEN RInt(i)
            ELSE df.rows[i][c]]]

\* The CSV streamed back with the answer.
Streaming(reply, rows) == [reply EXCEPT !.output = rows]

\* predict_single without the `model_pipeline is None` guard: the call of
\* None.predict raises AttributeError.
predict_single_unguarded(house) ==
    IF ~HouseFeatures(house) THEN RequestValidationError("predict")
    ELSE LET df == DataFrame(<<house>>)
             X == preprocess_features(df)
         IN  Engineered(
               IF ~X.ok THEN [Unhandled("predict", X.error) EXCEPT !.missing = X.missing]
               ELSE IF model_pipeline = None THEN Unhandled("predict", "AttributeError")
               ELSE IF ~predict(model_pipeline, ToSet(X.columns), X.rows).ok
               THEN Unhandled("predict", "ValueError")
               ELSE Ok("predict",
                       <<RoundHalfEven(predict(model_pipeline, ToSet(X.columns),
                                               X.rows).y[1])>>),
               <<house>>)

\* lines 172-185
predict_single(house) ==
    IF ~HouseFeatures(house) THEN RequestValidationError("predict")
    ELSE IF model_pipeline = None THEN HTTPException("predict", 503, "Model not loaded")
    ELSE LET df == DataFrame(<<house>>)
             X == preprocess_features(df)
             pred == predict(model_pipeline, ToSet(X.columns), X.rows)
         IN  Engineered(
               IF ~X.ok THEN [Unhandled("predict", X.error) EXCEPT !.missing = X.missing]
               ELSE IF ~pred.ok THEN Unhandled("predict", "ValueError")
               ELSE Ok("predict", <<RoundHalfEven(pred.y[1])>>),
               <<house>>)

\* predict_batch converting with astype(int), as predict_csv does
predict_batch_truncating(houses) ==
    IF \E i \in 1..Len(houses) : ~HouseFeatures(houses[i])
    THEN RequestValidationError("predict-batch")
    ELSE IF model_pipeline = None
    THEN HTTPException("predict-batch", 503, "Model not loaded")
    ELSE LET df == DataFrame(houses)
             X == preprocess_features(df)
             predictions == predict(model_pipeline, ToSet(X.columns), X.rows)
         IN  Engineered(
               IF ~X.ok
               THEN [Unhandled("predict-batch", X.error) EXCEPT !.missing = X.missing]
               ELSE IF ~predictions.ok THEN Unhandled("predict-batch", "ValueError")
               ELSE Ok("predict-batch", AsInt(predictions.y)),
               houses)

\* lines 188-202
predict_batch(houses) ==
    IF \E i \in 1..Len(houses) : ~HouseFeatures(houses[i])
    THEN RequestValidationError("predict-batch")
    ELSE IF model_pipeline = None
    THEN HTTPException("predict-batch", 503, "Model not loaded")
    ELSE LET df == DataFrame(houses)
             X == preprocess_features(df)
             predictions == predict(model_pipeline, ToSet(X.columns), X.rows)
         IN  Engineered(
               IF ~X.ok
               THEN [Unhandled("predict-batch", X.error) EXCEPT !.missing = X.missing]
               ELSE IF ~predictions.ok THEN Unhandled("predict-batch", "ValueError")
               ELSE Ok("predict-batch", Rounded(predictions.y)),
               houses)

\* lines 205-251: every exception after the file-name check becomes a 500.
predict_csv(file) ==
    IF model_pipeline = None THEN HTTPException("predict-csv", 503, "Model not loaded")
    ELSE IF ~EndsWithCsv(file.filename)
    THEN HTTPException("predict-csv", 400, "Only CSV files are supported")
    ELSE IF file.columns = {}
    THEN HTTPException("predict-csv", 500, "Prediction failed: EmptyDataError")
    ELSE LET df == read_csv(file)
             X == preprocess_features(df)
             predictions == predict(model_pipeline, ToSet(X.columns), X.rows)
         IN  IF Len(df.rows) = 0
             THEN HTTPException("predict-csv", 500, "Prediction failed: Uploaded CSV is empty")
             ELSE Engineered(
                    IF ~X.ok
                    THEN [HTTPException("predict-csv", 500, "Prediction failed: RuntimeError")
                            EXCEPT !.missing = X.missing]
                    ELSE IF ~predictions.ok
                    THEN HTTPException("predict-csv", 500, "Prediction failed: ValueError")
                    ELSE Streaming(Ok("predict-csv", AsInt(predictions.y)),
                                   result_df(df, AsInt(predictions.y))),
                    file.rows)

(***************************************************************************)
(* app/main.py: the inference endpoints                                    *)
(***************************************************************************)
\* lines 138-141 and 170-173: a column of original_features that the table
\* lacks is created and filled with 0; then the columns are selected.
align(df) ==
    LET absent == ToSet(original_features) \ df.cols
    IN  [cols |-> ToSet(original_features),
         defaulted |-> IF Len(df.rows) = 0 THEN {} ELSE absent,
         rows |-> [i \in Indices(df) |->
                    [c \in ToSet(original_features) |->
                        IF c \in df.cols THEN df.rows[i][c] ELSE RInt(0)]]]

\* lines 116-147; records is [payload.features] or payload.items.
predict_app(records) ==
    IF model_pipeline = None THEN HTTPException("predict", 503, "Model not loaded")
    ELSE IF Len(records) = 0
    THEN HTTPException("predict", 400, "Prediction failed: No prediction data provided")
    ELSE LET df == align(DataFrame(records))
             predictions == predict(model_pipeline, df.cols, df.rows)
         IN  IF ~predictions.ok
             THEN HTTPException("predict", 400, "Prediction failed: ValueError")
             ELSE [Ok("predict", Rounded(predictions.y)) EXCEPT !.defaulted = df.defaulted]

\* lines 150-191
predict_csv_app(file) ==
    IF model_pipeline = None THEN HTTPException("predict-csv", 503, "Model not loaded")
    ELSE IF ~EndsWithCsv(file.filename)
    THEN HTTPException("predict-csv", 400, "Only CSV files are supported")
    ELSE IF file.columns = {}
    THEN HTTPException("predict-csv", 400, "CSV processing failed: EmptyDataError")
    ELSE IF Len(file.rows) = 0
    THEN HTTPException("predict-csv", 400, "CSV processing failed: Uploaded CSV is empty")
    ELSE LET df == align(read_csv(file))
             predictions == predict(model_pipeline, df.cols, df.rows)
         IN  IF ~predictions.ok \/ "id" \in df.cols
             THEN HTTPException("predict-csv", 400, "CSV processing failed: ValueError")
             ELSE Streaming([Ok("predict-csv", AsInt(predictions.y))
                               EXCEPT !.defaulted = df.defaulted],
                            result_df_app(df, AsInt(predictions.y)))

(***************************************************************************)
(* app/api.py: the inference endpoints                                     *)
(***************************************************************************)
\* lines 62-66: the raw record goes to the pipeline; int() truncates.
predict_single_api(house) ==
    IF ~HouseFeatures(house) THEN RequestValidationError("predict")
    ELSE LET df == DataFrame(<<house>>)
             pred == predict(model_pipeline, df.cols, df.rows)
         IN  IF ~pred.ok THEN Unhandled("predict", "ValueError")
             ELSE Ok("predict", <<Truncate(pred.y[1])>>)

\* lines 69-75
predict_batch_api(houses) ==
    IF \E i \in 1..Len(houses) : ~HouseFeatures(houses[i])
    THEN RequestValidationError("predict-batch")
    ELSE IF Len(houses) = 0 THEN HTTPException("predict-batch", 400, "Empty batch")
    ELSE LET df == DataFrame(houses)
             preds == predict(model_pipeline, df.cols, df.rows)
         IN  IF ~preds.ok THEN Unhandled("predict-batch", "ValueError")
             ELSE Ok("predict-batch", AsInt(preds.y))

(***************************************************************************)
(* backend-python/app/evaluate.py                                          *)
(***************************************************************************)
\* lines 20-57: the derivations of the batch evaluator, with the
\* CURRENT_YEAR of the evaluating process; year_built is dropped.
preprocess_features_eval_value(df, year, r, c) ==
    LET age == IF "year_built" \in df.cols
               THEN RSub(RInt(year), r["year_built"])
               ELSE r["age_of_house"]
    IN  CASE c = "age_of_house" -> age
          [] c = "size_per_bedroom" ->
                RDiv(r["square_footage"], RAdd(r["bedrooms"], RInt(1)))
          [] c = "bathroom_bedroom_ratio" ->
                RDiv(r["bathrooms"], RAdd(r["bedrooms"], RInt(1)))
          [] c = "total_rooms" -> RAdd(r["bedrooms"], r["bathrooms"])
          [] c = "quality_score" -> RMul(r["school_rating"], r["distance_to_city_center"])
          [] c = "square_footage_sq" -> RMul(r["square_footage"], r["square_footage"])
          [] c = "lot_size_sq" -> RMul(r["lot_size"], r["lot_size"])
          [] c = "is_new_house" -> Bool01(RLe(age, RInt(NewHouseAge)))
          [] c = "large_house" ->
                Bool01(RGt(r["square_footage"], Median(df, "square_footage")))

preprocess_features_eval(df, year) ==
    LET derived == derived_columns(df.cols)
        cols == (df.cols \ {"year_built"}) \cup derived
    IN  [cols |-> cols,
         rows |-> [i \in Indices(df) |->
                    [c \in cols |->
                        IF c \in derived
                        THEN preprocess_features_eval_value(df, year, df.rows[i], c)
                        ELSE df.rows[i][c]]]]

\* lines 59-122: any exception ends the script before the result is written.
evaluate(data, year) ==
    IF ~Readable(model_file) THEN Unhandled("evaluate", "joblib.load")
    ELSE IF data.columns = {} THEN Unhandled("evaluate", "EmptyDataError")
    ELSE LET bundle == model_file.content
             df == read_csv(data)
             df_processed == preprocess_features_eval(df, year)
             missing == ToSet(bundle.features_used) \ df_processed.cols
             preds == predict(bundle.pipeline, df_processed.cols, df_processed.rows)
         IN  Engineered(
               IF missing # {}
               THEN [Unhandled("evaluate", "KeyError") EXCEPT !.missing = missing]
               ELSE IF ~preds.ok THEN Unhandled("evaluate", "ValueError")
               ELSE IF ~Readable(meta_file) THEN Unhandled("evaluate", "open")
               ELSE IF "train_mean_price" \notin DOMAIN meta_file.content
               THEN Unhandled("evaluate", "KeyError")
               ELSE Ok("evaluate", AsInt(preds.y)),
               data.rows)

(***************************************************************************)
(* The operations.                                                         *)
(***************************************************************************)
\* The system clock passes into the next year (datetime.datetime.now()).
Tick ==
    /\ phase = "down"
    /\ now < MaxYear
    /\ now' = now + 1
    /\ UNCHANGED <<service, model_file, meta_file, phase, model_pipeline, model_meta,
                   original_features, target, request, response, pending>>

\* backend-python/app/hpml_train.py: a training run on a labelled CSV.  The
\* bundle is written first (line 196), the metadata after it (lines 199-200);
\* opening the metadata file for writing may fail.
hpml_train ==
    \E data \in TrainingCSVs, pipeline \in FittedPipelines, meta_written \in BOOLEAN :
        LET df == hpml_train_engineer(read_csv(data), now)
            features == AsList(ALLOWED_FEATURES_TRAIN)
        IN  /\ phase = "down"
            /\ ALLOWED_FEATURES_TRAIN \cup {"price"} \subseteq df.cols
            /\ request' = [op |-> "hpml_train", input |-> data, year |-> now]
            /\ response' = IF meta_written THEN Ok("hpml_train", <<>>)
                           ELSE Unhandled("hpml_train", "open")
            /\ model_file' = FileOf(TrainedBundle(pipeline, features, "price"))
            /\ meta_file' = IF meta_written
                            THEN FileOf(TrainedMeta(pipeline, features, "price",
                                                    Len(df.rows)))
                            ELSE meta_file
            /\ UNCHANGED <<service, now, phase, model_pipeline, model_meta,
                           original_features, target, pending>>

\* the CSVs given to the batch evaluator: raw records, and one table that
\* lacks the lot_size column
EvaluationCSVs ==
    {Upload("houses.csv", RAW_COLUMNS, rows) : rows \in Tables}
    \cup {Upload("houses.csv", RAW_COLUMNS \ {"lot_size"},
                 <<Without(House(6, 3, 3), "lot_size")>>)}

\* app/hpml_train.py: a training run.  The bundle is written first (lines
\* 151-155), the metadata after it (lines 174-176).
hpml_train_app ==
    \E data \in AppTrainingCSVs, target_name \in TargetNames, meta_written \in BOOLEAN :
      \E features \in {X_raw_columns(data.header)} :
        LET tgt == resolve_target(target_name, data.header)
            pipeline == FittedOn(features)
        IN  /\ phase = "down"
            /\ request' = [op |-> "hpml_train_app", input |-> data, year |-> 0,
                            target_name |-> target_name]
            /\ IF Len(data.rows) < MinSamples
               THEN /\ response' = Unhandled("hpml_train_app", "ValueError")
                    /\ UNCHANGED <<model_file, meta_file>>
               ELSE IF available_features(data.header) = <<>>
               THEN /\ response' = Unhandled("hpml_train_app", "ValueError")
                    /\ UNCHANGED <<model_file, meta_file>>
               ELSE /\ response' = IF meta_written THEN Ok("hpml_train_app", <<>>)
                                   ELSE Unhandled("hpml_train_app", "open")
                    /\ model_file' = FileOf(TrainedBundle(pipeline, features, tgt))
                    /\ meta_file' = IF meta_written
                                    THEN FileOf(AppMeta(pipeline, features, tgt,
                                                        Len(data.rows)))
                                    ELSE meta_file
            /\ UNCHANGED <<service, now, phase, model_pipeline, model_meta,
                           original_features, target, pending>>

\* a run of the batch evaluator on a CSV of raw records
Evaluate ==
    \E data \in EvaluationCSVs :
        LET rows == data.rows
        IN  /\ service = "evaluate"
            /\ request' = [op |-> "evaluate", input |-> data, year |-> now]
            /\ response' = evaluate(data, now)
            /\ UNCHANGED <<service, now, model_file, meta_file, phase, model_pipeline,
                           model_meta, original_features, target, pending>>

\* Served with a handler that stores the median of the request's table in
\* model_meta
Served_caching_median(req, reply) ==
    /\ phase = "serving"
    /\ request' = req
    /\ response' = reply
    /\ model_meta' =
         IF req.op = "predict-batch" /\ reply.status = 200
         THEN [k \in DOMAIN model_meta \cup {"training_median_square_footage"} |->
                 IF k = "training_median_square_footage" THEN 5 ELSE model_meta[k]]
         ELSE model_meta
    /\ UNCHANGED <<service, now, model_file, meta_file, phase, model_pipeline,
                   original_features, target, pending>>

Served(req, reply) ==
    /\ phase = "serving"
    /\ request' = req
    /\ response' = reply
    /\ UNCHANGED <<service, now, model_file, meta_file, phase, model_pipeline,
                   model_meta, original_features, target, pending>>

GET_health ==
    Served([op |-> "health", input |-> <<>>, year |-> 0],
           CASE service = "backend" -> health_check
             [] service = "app_main" -> health_check_app
             [] service = "app_api" -> health_check_api)

GET_model_info ==
    Served([op |-> "model-info", input |-> <<>>, year |-> 0],
           CASE service = "backend" -> model_info
             [] service = "app_main" -> model_information
             [] service = "app_api" -> model_info_api)

\* POST /predict with one record
POST_predict ==
    \E house \in Houses :
        Served([op |-> "predict", input |-> <<house>>, year |-> 0],
               CASE service = "backend" -> predict_single(house)
                 [] service = "app_main" -> predict_app(<<house>>)
                 [] service = "app_api" -> predict_single_api(house))

\* POST /predict-batch; app/main.py takes the list on /predict
POST_predict_batch ==
    \E houses \in Batches :
        Served([op |-> "predict-batch", input |-> houses, year |-> 0],
               CASE service = "backend" -> predict_batch(houses)
                 [] service = "app_main" -> predict_app(houses)
                 [] service = "app_api" -> predict_batch_api(houses))

\* POST /predict-csv; app/api.py has no such route
POST_predict_csv ==
    \E file \in Uploads :
        /\ service # "app_api"
        /\ Served([op |-> "predict-csv", input |-> file, year |-> 0],
                  CASE service = "backend" -> predict_csv(file)
                    [] service = "app_main" -> predict_csv_app(file))

Init ==
    /\ service \in {"backend", "app_main", "app_api", "evaluate"}
    /\ now = CURRENT_YEAR
    /\ model_file \in {MissingFile, CorruptFile}
    /\ meta_file \in {MissingFile, CorruptFile, FileOf(ProvisionedMeta)}
    /\ phase = "down"
    /\ model_pipeline = None
    /\ model_meta = EmptyDict
    /\ original_features = <<>>
    /\ target = "price"
    /\ request = [op |-> "none", input |-> <<>>, year |-> 0]
    /\ response = NoResponse
    /\ pending = <<>>

Next ==
    \/ Tick
    \/ hpml_train
    \/ Evaluate
    \/ load_model
    \/ load_model_app
    \/ load_model_api
    \/ GET_health
    \/ GET_model_info
    \/ POST_predict
    \/ POST_predict_batch
    \/ POST_predict_csv

Spec == Init /\ [][Next]_vars

(***************************************************************************)
(* Requests in flight.  A request is accepted, and answered at any later   *)
(* moment, in any order: app/main.py runs its `def` handlers on a thread   *)
(* pool, the `async def` handlers of the other two yield at                *)
(* `await file.read()`.                                                    *)
(***************************************************************************)
MaxInflight == 2

\* What each route answers to a request, from the globals of the process.
handle(req) ==
    CASE req.op = "health" ->
            (CASE service = "backend" -> health_check
               [] service = "app_main" -> health_check_app
               [] service = "app_api" -> health_check_api)
      [] req.op = "model-info" ->
            (CASE service = "backend" -> model_info
               [] service = "app_main" -> model_information
               [] service = "app_api" -> model_info_api)
      [] req.op = "predict" ->
            (CASE service = "backend" -> predict_single(req.input[1])
               [] service = "app_main" -> predict_app(req.input)
               [] service = "app_api" -> predict_single_api(req.input[1]))
      [] req.op = "predict-batch" ->
            (CASE service = "backend" -> predict_batch(req.input)
               [] service = "app_main" -> predict_app(req.input)
               [] service = "app_api" -> predict_batch_api(req.input))
      [] req.op = "predict-csv" ->
            (CASE service = "backend" -> predict_csv(req.input)
               [] service = "app_main" -> predict_csv_app(req.input))

\* the requests issued concurrently
ConcurrentRequests ==
    {[op |-> "health", input |-> <<>>, year |-> 0],
     [op |-> "model-info", input |-> <<>>, year |-> 0],
     [op |-> "predict", input |-> <<House(6, 3, 3)>>, year |-> 0],
     [op |-> "predict-batch", input |-> <<House(6, 3, 3), House(4, 3, 3)>>, year |-> 0],
     [op |-> "predict-csv",
      input |-> Upload("houses.csv", RAW_COLUMNS, <<House(6, 3, 3)>>), year |-> 0]}

Remove(s, i) == [k \in 1..(Len(s) - 1) |-> IF k < i THEN s[k] ELSE s[k + 1]]

\* a request arrives while others are in flight
Accept ==
    \E req \in ConcurrentRequests :
        /\ phase = "serving"
        /\ Len(pending) < MaxInflight
        /\ req.op = "predict-csv" => service # "app_api"
        /\ pending' = Append(pending, req)
        /\ UNCHANGED <<service, now, model_file, meta_file, phase, model_pipeline,
                       model_meta, original_features, target, request, response>>

\* Respond that keeps the fall-back median of the request in model_meta
Respond_caching_median ==
    \E i \in 1..Len(pending) :
        /\ phase = "serving"
        /\ request' = pending[i]
        /\ response' = handle(pending[i])
        /\ pending' = Remove(pending, i)
        /\ model_meta' =
             IF pending[i].op = "predict-batch" /\ model_pipeline # None
             THEN [k \in DOMAIN model_meta \cup {"training_median_square_footage"} |->
                     IF k = "training_median_square_footage" THEN 5 ELSE model_meta[k]]
             ELSE model_meta
        /\ UNCHANGED <<service, now, model_file, meta_file, phase, model_pipeline,
                       original_features, target>>

\* any request in flight is answered; the handlers assign to no global
Respond ==
    \E i \in 1..Len(pending) :
        /\ phase = "serving"
        /\ request' = pending[i]
        /\ response' = handle(pending[i])
        /\ pending' = Remove(pending, i)
        /\ UNCHANGED <<service, now, model_file, meta_file, phase, model_pipeline,
                       model_meta, original_features, target>>

NextConcurrent ==
    \/ hpml_train
    \/ load_model
    \/ load_model_app
    \/ load_model_api
    \/ Accept
    \/ Respond

SpecConcurrent == Init /\ [][NextConcurrent]_vars

\* Training runs of the two training scripts, one after another.
NextTraining ==
    \/ hpml_train
    \/ hpml_train_app

SpecTraining == Init /\ [][NextTraining]_vars

(***************************************************************************)
(* Properties.                                                             *)
(***************************************************************************)
HTTPServices == {"backend", "app_main", "app_api"}
InferenceOps == {"predict", "predict-batch", "predict-csv"}
ClientError(status) == status >= 400 /\ status <= 499
ServerError(status) == status >= 500 /\ status <= 599

\* The startup code ran to its end without raising.  The files are those the
\* startup read: training runs precede the start.
LoadSucceeded ==
    CASE service = "backend" -> Readable(model_file) /\ Readable(meta_file)
      [] service = "app_main" -> Readable(model_file) /\ meta_file # CorruptFile
      [] service = "app_api" -> Readable(model_file) /\ Readable(meta_file)
      [] OTHER -> FALSE

\* C1: whenever GET /health has been answered, the answer says "loaded"
\* exactly when the startup load succeeded, and "not loaded" after a failed
\* load.
C1_HealthReflectsLoad ==
    request.op = "health" =>
        /\ response.status = 200
        /\ response.model = (IF LoadSucceeded THEN "loaded" ELSE "not loaded")

C1_Witness ==
    /\ request.op = "health"
    /\ service = "backend"
    /\ ~Readable(model_file)
    /\ response.model = "not loaded"

\* The request body passes the schema the endpoint declares: HouseFeatures
\* for the backend and app/api.py, any dict for app/main.py, any file for
\* /predict-csv.
BodyValid ==
    CASE request.op = "predict-csv" -> TRUE
      [] service = "app_main" -> TRUE
      [] OTHER -> \A i \in 1..Len(request.input) : HouseFeatures(request.input[i])

\* C2 as stated: with the bundle not loaded every inference request is
\* answered 503, and every failure is an error response of a running process.
C2_NotLoadedAlways503 ==
    (service \in HTTPServices /\ request.op \in InferenceOps) =>
        /\ model_pipeline = None =>
               response.status = 503 /\ response.kind = "HTTPException"
        /\ response.kind # "ok" => ClientError(response.status) \/ ServerError(response.status)
        /\ phase = "serving"

\* C2 amended: with the bundle not loaded, an inference request whose body
\* passes the declared schema is answered 503 by the handler, and one whose
\* body fails it is answered 422 before the handler runs; never a prediction
\* and never an escaped exception.  Every failed request is answered with a
\* 4xx or 5xx status and the process goes on serving.
C2_NotLoaded503OrRejected ==
    (service \in HTTPServices /\ request.op \in InferenceOps) =>
        /\ model_pipeline = None =>
               IF BodyValid
               THEN response.status = 503 /\ response.kind = "HTTPException"
               ELSE response.status = 422 /\ response.kind = "RequestValidationError"
        /\ response.kind # "ok" => ClientError(response.status) \/ ServerError(response.status)
        /\ response.kind = "ok" => response.status = 200
        /\ phase = "serving"

C2_Witness ==
    /\ service = "backend"
    /\ request.op = "predict"
    /\ model_pipeline = None
    /\ Readable(model_file)
    /\ response.status = 503

\* C3: an empty list on /predict-batch and a CSV without data rows on
\* /predict-csv are answered with a 4xx status by a service whose bundle is
\* loaded.
C3_EmptyInputIsClientError ==
    (service \in HTTPServices /\ model_pipeline # None) =>
        /\ (request.op = "predict-batch" /\ Len(request.input) = 0) =>
               ClientError(response.status)
        /\ (request.op = "predict-csv" /\ EndsWithCsv(request.input.filename)
              /\ Len(request.input.rows) = 0) =>
               ClientError(response.status)

\* C4: with a loaded bundle, /predict on a record that passes the schema and
\* /predict-batch on the list holding exactly that record give the same
\* status and the same price.
C4_SingleEqualsBatchOfOne ==
    (phase = "serving" /\ model_pipeline # None) =>
        \A h \in Houses :
            HouseFeatures(h) =>
                /\ service = "backend" =>
                       /\ predict_single(h).status = predict_batch(<<h>>).status
                       /\ predict_single(h).prices = predict_batch(<<h>>).prices
                /\ service = "app_api" =>
                       /\ predict_single_api(h).status = predict_batch_api(<<h>>).status
                       /\ predict_single_api(h).prices = predict_batch_api(<<h>>).prices

C4_Witness ==
    /\ service = "backend"
    /\ request.op = "predict-batch"
    /\ Len(request.input) = 1
    /\ response.status = 200
    /\ predict_single(request.input[1]).status = 200
    /\ response.prices = predict_single(request.input[1]).prices
    /\ response.prices # AsInt(predict(model_pipeline, ToSet(original_features),
                                        preprocess_features(DataFrame(request.input)).rows).y)

\* C5: in the backend service, the large_house value engineered for a
\* record and the price predicted for it are the same in any two batches
\* that contain the record.
C5_LargeHouseIndependentOfBatch ==
    (service = "backend" /\ phase = "serving" /\ model_pipeline # None) =>
        \A t1 \in Tables, t2 \in Tables :
            \A i \in 1..Len(t1), j \in 1..Len(t2) :
                t1[i] = t2[j] =>
                    /\ engineer(DataFrame(t1)).rows[i]["large_house"]
                         = engineer(DataFrame(t2)).rows[j]["large_house"]
                    /\ predict_batch(t1).prices[i] = predict_batch(t2).prices[j]

\* The request carries at least one record.
NonEmptyRequest ==
    IF request.op = "predict-csv" THEN Len(request.input.rows) > 0
    ELSE Len(request.input) > 0

\* C6: a request for which a column of the feature list is missing after the
\* derivations is answered with a 4xx status, and no answered prediction
\* rests on a column filled with a default value.
C6_MissingColumnIsClientError ==
    (service \in HTTPServices /\ request.op \in InferenceOps /\ NonEmptyRequest) =>
        /\ response.missing # {} => ClientError(response.status)
        /\ response.status = 200 => response.defaulted = {}

\* The ranges of a raw record.
InDeclaredRanges(h) ==
    /\ RAW_COLUMNS \subseteq DOMAIN h
    /\ h["square_footage"] > 0
    /\ h["bedrooms"] >= 1 /\ h["bedrooms"] <= 10
    /\ h["bathrooms"] >= 1 /\ h["bathrooms"] <= 10
    /\ h["year_built"] >= 1900 /\ h["year_built"] <= CURRENT_YEAR
    /\ h["lot_size"] > 0
    /\ h["distance_to_city_center"] >= 0
    /\ h["school_rating"] >= 0 /\ h["school_rating"] <= 10

\* C7: the prices written by /predict-csv for a table of records are the
\* prices /predict-batch returns for the same records, each the model output
\* rounded to the nearest integer.
C7_CsvEqualsRoundedBatch ==
    (service = "backend" /\ request.op = "predict-csv" /\ response.status = 200
       /\ \A i \in 1..Len(request.input.rows) : InDeclaredRanges(request.input.rows[i])) =>
        response.prices = predict_batch(request.input.rows).prices

\* C8 as stated: with a missing or unreadable model file no service ever
\* reaches the state in which it accepts requests.
C8_FailFast ==
    (service \in HTTPServices /\ ~Readable(model_file)) => phase # "serving"

\* C8 amended: with a missing or unreadable model file the startup of
\* app/main.py and of app/api.py fails and no request is ever served, while
\* the backend service starts with the pipeline unset, reports "not loaded"
\* and answers no inference request with a prediction.
C8_FailFastExceptBackend ==
    (service \in HTTPServices /\ ~Readable(model_file) /\ phase # "down") =>
        IF service = "backend"
        THEN /\ phase = "serving"
             /\ model_pipeline = None
             /\ request.op = "health" => response.model = "not loaded"
             /\ request.op \in InferenceOps => response.status \in {503, 422}
        ELSE /\ phase = "failed"
             /\ request.op \notin InferenceOps \cup {"health"}

C8_Witness ==
    /\ service = "app_main"
    /\ model_file = MissingFile
    /\ phase = "failed"

\* C9: in the backend service, every record that feature engineering ran on
\* has all seven fields inside their ranges.
C9_EngineeredRecordsInRange ==
    (service = "backend" /\ request.op \in InferenceOps) =>
        \A i \in 1..Len(response.engineered) : InDeclaredRanges(response.engineered[i])

\* The age_of_house and is_new_house columns of a table.
AgeColumns(df) ==
    [i \in Indices(df) |-> <<df.rows[i]["age_of_house"], df.rows[i]["is_new_house"]>>]

\* C10: a run of the training script and a run of the batch evaluator derive,
\* for every record, the age_of_house and the is_new_house that the serving
\* path derives.
C10_SameReferenceYear ==
    \A h \in Houses :
        /\ (request.op = "hpml_train" /\ response.status = 200) =>
               AgeColumns(hpml_train_engineer(DataFrame(<<h>>), request.year))
                 = AgeColumns(engineer(DataFrame(<<h>>)))
        /\ (request.op = "evaluate" /\ response.status = 200) =>
               AgeColumns(preprocess_features_eval(DataFrame(<<h>>), request.year))
                 = AgeColumns(engineer(DataFrame(<<h>>)))

\* The quality_score column of a table.
QualityColumn(df) == [i \in Indices(df) |-> df.rows[i]["quality_score"]]

\* C11: a run of the training script and a run of the batch evaluator derive,
\* for every record, the quality_score that the serving path derives.
C11_SameQualityScore ==
    \A h \in Houses :
        /\ (request.op = "hpml_train" /\ response.status = 200) =>
               QualityColumn(hpml_train_engineer(DataFrame(<<h>>), request.year))
                 = QualityColumn(engineer(DataFrame(<<h>>)))
        /\ (request.op = "evaluate" /\ response.status = 200) =>
               QualityColumn(preprocess_features_eval(DataFrame(<<h>>), request.year))
                 = QualityColumn(engineer(DataFrame(<<h>>)))

\* What the startup of the running service leaves in the globals, given the
\* two files it read.
StartupPipeline ==
    IF LoadSucceeded THEN model_file.content.pipeline ELSE None

StartupMeta ==
    IF ~LoadSucceeded THEN EmptyDict
    ELSE IF Readable(meta_file) THEN meta_file.content
    ELSE [target |-> "price", n_samples |-> 0,
          features_used |-> model_file.content.features_used]

StartupFeatures ==
    IF Readable(model_file) THEN model_file.content.features_used ELSE <<>>

\* C12: whatever other requests are in flight and in whatever order they are
\* answered, the answer to a request is the answer of its route computed
\* from the globals exactly as the startup left them, i.e. the answer the
\* request gets when it runs alone.
C12_RequestsDoNotInteract ==
    (phase = "serving" /\ request.op \in InferenceOps \cup {"health", "model-info"}) =>
        /\ model_pipeline = StartupPipeline
        /\ model_meta = StartupMeta
        /\ original_features = StartupFeatures
        /\ response = handle(request)

\* a batch answered with prices while an upload is still in flight
C12_Witness ==
    /\ service = "backend"
    /\ request.op = "predict-batch"
    /\ response.status = 200
    /\ Len(pending) = 1
    /\ pending[1].op = "predict-csv"
    /\ "training_median_square_footage" \notin DOMAIN model_meta

\* C13: once the startup has run, no step changes the pipeline, the
\* feature-name list, the target name or the metadata, whether the request
\* served succeeds or fails, and the startup never runs again.
C13_LoadedStateNeverMutated ==
    [][phase # "down" =>
          /\ phase' = phase
          /\ UNCHANGED <<model_pipeline, original_features, target, model_meta>>]_vars

\* a loaded service that answered a failing request still holds what it loaded
C13_Witness ==
    /\ phase = "serving"
    /\ model_pipeline # None
    /\ Readable(meta_file)
    /\ model_meta = meta_file.content
    /\ request.op = "predict-csv"
    /\ response.status = 500

\* Contents of a metadata file: with and without the median key, and with
\* different training statistics.
MetadataContents ==
    {ProvisionedMeta,
     [ProvisionedMeta EXCEPT !["n_samples"] = 7],
     [ProvisionedMeta EXCEPT !["training_median_square_footage"] = 7],
     [target |-> "price", n_samples |-> 2],
     [target |-> "price", n_samples |-> 7]}

\* The prices the backend routes return for the records when the loaded
\* metadata is meta, the bundle being the loaded one.
PricesGiven(meta, records) ==
    LET df_processed == engineer_given(meta, DataFrame(records))
    IN  Rounded(predict(model_pipeline, df_processed.cols, df_processed.rows).y)

MedianEntry(meta) ==
    IF "training_median_square_footage" \in DOMAIN meta
    THEN <<meta["training_median_square_footage"]>> ELSE <<>>

\* C14 as stated: in the backend service the prices of a request are the
\* same under any two contents of the loaded metadata.
C14_PredictionsIgnoreMetadata ==
    (service = "backend" /\ phase = "serving" /\ model_pipeline # None) =>
        \A t \in Tables \ {<<>>} :
            /\ predict_batch(t).prices = PricesGiven(model_meta, t)
            /\ \A m1 \in MetadataContents, m2 \in MetadataContents :
                   PricesGiven(m1, t) = PricesGiven(m2, t)

\* C14 amended: the prices of a request depend on the loaded metadata only
\* through its training_median_square_footage entry: they are the same under
\* any two contents that both lack the entry or both hold the same value.
C14_PredictionsReadOnlyMedianEntry ==
    (service = "backend" /\ phase = "serving" /\ model_pipeline # None) =>
        \A t \in Tables \ {<<>>} :
            /\ predict_batch(t).prices = PricesGiven(model_meta, t)
            /\ \A m1 \in MetadataContents, m2 \in MetadataContents :
                   MedianEntry(m1) = MedianEntry(m2) =>
                       PricesGiven(m1, t) = PricesGiven(m2, t)

\* a price returned under metadata holding the entry, which differs from the
\* price under metadata lacking it
C14_Witness ==
    /\ service = "backend"
    /\ request.op = "predict"
    /\ response.status = 200
    /\ "training_median_square_footage" \in DOMAIN model_meta
    /\ response.prices = PricesGiven(model_meta, request.input)
    /\ response.prices # PricesGiven([target |-> "price", n_samples |-> 2], request.input)

\* The prediction for row i of an uploaded table: the output of the loaded
\* pipeline on row i of the feature table, as an integer.
RowPrediction(file, i) ==
    LET X == IF service = "backend" THEN engineer(read_csv(file)) ELSE align(read_csv(file))
    IN  Truncate(predict(model_pipeline, X.cols, X.rows).y[i])

\* C15: a /predict-csv answer has one output row per input row; row i holds
\* the prediction for input row i in predicted_price; its id is i when the
\* upload has no id column and the uploaded id when it has one.
C15_CsvRowsAlignedWithIds ==
    (service \in HTTPServices /\ request.op = "predict-csv" /\ response.status = 200) =>
        /\ Len(response.output) = Len(request.input.rows)
        /\ \A i \in 1..Len(response.output) :
               /\ response.output[i]["predicted_price"] = RInt(RowPrediction(request.input, i))
               /\ response.output[i]["id"] =
                      IF "id" \in request.input.columns
                      THEN RInt(request.input.rows[i]["id"])
                      ELSE RInt(i)

\* The coefficient items of the loaded metadata.
LoadedCoefficients ==
    IF "coefficients" \in DOMAIN model_meta THEN model_meta["coefficients"] ELSE <<>>

\* The item that entry k of the reported list was taken from: the one whose
\* name, without its prefix, is the reported feature.
ReportedItem(k) ==
    CHOOSE j \in 1..Len(LoadedCoefficients) :
        <<LoadedCoefficients[j].name[Len(LoadedCoefficients[j].name)]>>
            = response.top_features[k].feature

Magnitude(j) == RAbs(LoadedCoefficients[j].coef)

\* C16: a /model-info answer reports min(5, number of coefficients) distinct
\* coefficients of the metadata, each with its rounded value, in order of
\* non-increasing absolute value, and no coefficient left out has a larger
\* absolute value than a reported one.
C16_TopFiveByMagnitude ==
    (service \in HTTPServices /\ request.op = "model-info" /\ response.status = 200) =>
        LET n == Len(response.top_features)
            reported == {ReportedItem(k) : k \in 1..n}
        IN  /\ n = (IF Len(LoadedCoefficients) < 5 THEN Len(LoadedCoefficients) ELSE 5)
            /\ \A k \in 1..n :
                   /\ \E j \in 1..Len(LoadedCoefficients) :
                          <<LoadedCoefficients[j].name[Len(LoadedCoefficients[j].name)]>>
                              = response.top_features[k].feature
                   /\ response.top_features[k].impact
                          = RoundHalfEven(LoadedCoefficients[ReportedItem(k)].coef)
            /\ Cardinality(reported) = n
            /\ \A k1 \in 1..n, k2 \in 1..n :
                   k1 < k2 => RLe(Magnitude(ReportedItem(k2)), Magnitude(ReportedItem(k1)))
            /\ \A j \in (1..Len(LoadedCoefficients)) \ reported :
                   \A k \in 1..n : RLe(Magnitude(j), Magnitude(ReportedItem(k)))

\* more than five coefficients, the first one reported is negative and one
\* left out is not zero
C16_Witness ==
    /\ service = "backend"
    /\ request.op = "model-info"
    /\ response.status = 200
    /\ Len(LoadedCoefficients) > 5
    /\ response.top_features[1].impact < 0
    /\ \E j \in 1..Len(LoadedCoefficients) :
           /\ j \notin {ReportedItem(k) : k \in 1..Len(response.top_features)}
           /\ LoadedCoefficients[j].coef # RInt(0)

\* The table a backend route builds from the request.
RequestTable ==
    IF request.op = "predict-csv" THEN read_csv(request.input)
    ELSE DataFrame(request.input)

\* C17: when the backend's preprocess_features returns for a request, the
\* columns of the table it returns are the feature-name list of the bundle,
\* name by name in the same order, and every row has exactly those columns;
\* when it does not return, the request is answered with an error and no
\* price.  The evaluator predicts only when no feature of the bundle is
\* missing from its table.
C17_ColumnsAreBundleFeatures ==
    /\ (service = "backend" /\ request.op \in InferenceOps
          /\ response.engineered # <<>>) =>
           LET X == preprocess_features(RequestTable)
           IN  IF X.ok
               THEN /\ X.columns = model_file.content.features_used
                    /\ Len(X.rows) = Len(RequestTable.rows)
                    /\ \A i \in 1..Len(X.rows) : DOMAIN X.rows[i] = ToSet(X.columns)
               ELSE /\ response.status >= 400
                    /\ response.prices = <<>>
                    /\ response.missing # {}
    /\ (service = "evaluate" /\ request.op = "evaluate") =>
           /\ response.status = 200 => response.missing = {}
           /\ response.missing # {} => response.status >= 400 /\ response.prices = <<>>

\* an upload with a column that is no feature, answered with prices
C17_Witness ==
    /\ service = "backend"
    /\ request.op = "predict-csv"
    /\ response.status = 200
    /\ "id" \in request.input.columns
    /\ "id" \notin ToSet(preprocess_features(RequestTable).columns)

\* C18: after a successful training run the metadata file holds the key
\* training_median_square_footage, and a backend service that loaded the
\* metadata of a training run finds the key, so that its large_house
\* threshold is not the median of the request.
C18_TrainingPersistsMedian ==
    /\ (request.op = "hpml_train" /\ response.status = 200) =>
           /\ Readable(meta_file)
           /\ "training_median_square_footage" \in DOMAIN meta_file.content
    /\ (service = "backend" /\ phase = "serving" /\ model_pipeline # None
          /\ "train_mean_price" \in DOMAIN model_meta) =>
           /\ "training_median_square_footage" \in DOMAIN model_meta
           /\ \A t \in Tables \ {<<>>} :
                  median_size(DataFrame(t)) = median_size(DataFrame(<<t[1]>>))

\* The engineered features of backend-python/app/hpml_train.py.
EngineeredFeatures == ALLOWED_FEATURES_TRAIN \ ALLOWED_FEATURES

\* the name has id, index, row, listing or mls in it, whatever the case
IdLike(name) ==
    \E pattern \in {"id", "index", "row", "listing", "mls"} :
        In(Chars(pattern), Lower(Chars(name)))

\* C19: the feature list of every bundle a training run wrote holds only
\* allow-listed business features and engineered features, and no name
\* with an ID-like substring.
C19_FeaturesFromAllowList ==
    Readable(model_file) =>
        \A f \in ToSet(model_file.content.features_used) :
            /\ f \in ALLOWED_FEATURES \cup EngineeredFeatures
            /\ ~IdLike(f)

\* a bundle written from a CSV that has ID-like columns and a column that is
\* not allow-listed
C19_Witness ==
    /\ request.op = "hpml_train_app"
    /\ response.status = 200
    /\ {"id", "Listing_ID", "garage"} \subseteq request.input.columns
    /\ IdLike("Listing_ID")
    /\ Readable(model_file)
    /\ ToSet(model_file.content.features_used) = RAW_COLUMNS

\* C20: the target stored in a bundle is not one of the bundle's features.
C20_TargetNotAFeature ==
    Readable(model_file) =>
        model_file.content.target \notin ToSet(model_file.content.features_used)

\* the bundle file and the metadata file come from the same training run:
\* same target, same features, the coefficients of the bundle's pipeline
WrittenAsPair(bundle_file, metadata_file) ==
    /\ Readable(bundle_file)
    /\ Readable(metadata_file)
    /\ metadata_file.content.target = bundle_file.content.target
    /\ metadata_file.content.features_used = bundle_file.content.features_used
    /\ metadata_file.content.coefficients =
            CoefficientItems(bundle_file.content.pipeline,
                             bundle_file.content.features_used)

\* C21: a training run that has stopped, completed or failed, has written
\* both the bundle file and the metadata file or neither of them.
C21_BundleAndMetadataWrittenTogether ==
    [][request'.op \in {"hpml_train", "hpml_train_app"} =>
          \/ UNCHANGED <<model_file, meta_file>>
          \/ WrittenAsPair(model_file', meta_file')]_vars

\* backend-python/app/main.py lines 55-64: both reads of load_model succeeded
BothFilesRead == Readable(model_file) /\ Readable(meta_file)

\* C22 as stated: in the backend service, after startup, the pipeline is set
\* only if the bundle and the metadata were both read; after a failed load
\* health says "not loaded" and every predict request and model-info are
\* answered 503.
C22_FailedLoadAlways503 ==
    (service = "backend" /\ phase = "serving") =>
        /\ model_pipeline # None => BothFilesRead
        /\ ~BothFilesRead =>
               /\ request.op = "health" => response.model = "not loaded"
               /\ request.op \in InferenceOps => response.status = 503
               /\ request.op = "model-info" => response.status = 503

\* C22 amended: as above, except that a predict request whose body fails the
\* declared schema is answered 422 before the handler's guard runs; no
\* request is answered with a prediction.
C22_FailedLoadServesNothing ==
    (service = "backend" /\ phase = "serving") =>
        /\ model_pipeline # None => BothFilesRead
        /\ ~BothFilesRead =>
               /\ request.op = "health" => response.model = "not loaded"
               /\ request.op \in InferenceOps =>
                      /\ response.status = (IF BodyValid THEN 503 ELSE 422)
                      /\ response.prices = <<>>
               /\ request.op = "model-info" => response.status = 503

\* the bundle was read and the metadata was not: model-info answered 503
C22_Witness ==
    /\ service = "backend"
    /\ phase = "serving"
    /\ Readable(model_file)
    /\ ~Readable(meta_file)
    /\ model_pipeline = None
    /\ request.op = "model-info"
    /\ response.status = 503

====
